---- MODULE Spec2Model ----
(***************************************************************************)
(* Model of generate_suivi_html (HTML_weekfollowup_generator.py): one run  *)
(* of the report generator, from the loaded worksheet to the written file. *)
(*                                                                         *)
(* Text.  A Python str is a sequence of tokens.  The characters the code   *)
(* treats specially (space, underscore, the five characters html.escape    *)
(* rewrites, digits, sign and decimal point) are always tokens of their    *)
(* own; a run of other characters may be one token.                        *)
(*                                                                         *)
(* Cells.  A worksheet cell is a text cell, a numeric cell (value kept in  *)
(* tenths, so 27 is 2.7) or NaN (an empty spreadsheet cell as read_excel   *)
(* returns it).                                                            *)
(***************************************************************************)
EXTENDS Integers, Sequences, FiniteSets

\* ------------------------------------------------------------- bounds
MaxRows == 2      \* rows of the worksheet
MaxOrdre == 2     \* length of ordre_voulu

\* -------------------------------------------------------------- cells
Str(s) == [k |-> "str", s |-> s, v |-> 0]
Num(t) == [k |-> "num", s |-> <<>>, v |-> t]
IntCell(n) == [k |-> "int", s |-> <<>>, v |-> n]
NaN == [k |-> "nan", s |-> <<>>, v |-> 0]

\* ------------------------------------------------------- column names
ColEtat == <<"Etat">>
ColResp == <<"Prise", " ", "en", " ", "charge", " ", "par">>
ColPrioNum == <<"_", "_", "prio", "_", "num">>
ColType == <<"Type", " ", "(Machine/Humain/Deux)">>
ColBatiments == <<"Bâtiments">>
ColIntitule == <<"Intitulé", " ", "de", " ", "l", "'", "action">>
ColDate == <<"Date", " ", "souhaitée", " ", " ", " ", " ", " ", " ", " ", " ", " ", "(demandeur)">>
ColAvancement == <<"Avancement", " ", "de", " ", "l", "'", "action", " ", "(décision,", " ", "commentaire,...)">>
nom_col_priorite_affiche == <<"Priorité">>
nom_feuille == <<"Suivi", " ", "Actions">>

DefaultColonnes ==
    << ColBatiments, ColIntitule, ColDate, nom_col_priorite_affiche,
       ColAvancement, ColType, ColEtat >>

DefaultEtats == { Str(<<"En", " ", "cours">>), Str(<<"Non", " ", "démarrée">>) }

\* column index written in the DataTables configuration (order / columnDefs)
OrderColumn == 3

\* ------------------------------------------------------ str functions
\* html.escape(s, quote=True), character by character
EscapeChar(c) ==
    CASE c = "&" -> <<"&", "amp;">>
      [] c = "<" -> <<"&", "lt;">>
      [] c = ">" -> <<"&", "gt;">>
      [] c = "\"" -> <<"&", "quot;">>
      [] c = "'" -> <<"&", "#x27;">>
      [] OTHER -> <<c>>

RECURSIVE Escape(_)
Escape(s) == IF s = <<>> THEN <<>> ELSE EscapeChar(Head(s)) \o Escape(Tail(s))

\* nom.replace(" ", "_")
Anchor(nom) == [i \in 1..Len(nom) |-> IF nom[i] = " " THEN "_" ELSE nom[i]]

Digit(d) == <<"0", "1", "2", "3", "4", "5", "6", "7", "8", "9">>[d + 1]

RECURSIVE NatToStr(_)
NatToStr(n) == IF n < 10 THEN <<Digit(n)>> ELSE NatToStr(n \div 10) \o <<Digit(n % 10)>>

\* str(int)
IntToStr(n) == IF n < 0 THEN <<"-">> \o NatToStr(-n) ELSE NatToStr(n)

\* code points of the single-character tokens, for str comparison
Ord(c) ==
    CASE c = " " -> 32 [] c = "&" -> 38 [] c = "'" -> 39 [] c = "<" -> 60
      [] c = ">" -> 62 [] c = "B" -> 66 [] c = "I" -> 73 [] c = "M" -> 77
      [] c = "V" -> 86 [] c = "_" -> 95 [] c = "a" -> 97 [] c = "b" -> 98

\* Python's a < b on str: lexicographic by code point
RECURSIVE StrLess(_, _)
StrLess(a, b) ==
    IF b = <<>> THEN FALSE
    ELSE IF a = <<>> THEN TRUE
    ELSE IF Head(a) = Head(b) THEN StrLess(Tail(a), Tail(b))
    ELSE Ord(Head(a)) < Ord(Head(b))

Range(s) == { s[i] : i \in 1..Len(s) }

RECURSIVE Remove(_, _)
Remove(s, x) ==
    IF s = <<>> THEN <<>>
    ELSE IF Head(s) = x THEN Tail(s) ELSE <<Head(s)>> \o Remove(Tail(s), x)

\* sorted(autres) for a list of distinct str
RECURSIVE Sorted(_)
Sorted(s) ==
    IF s = <<>> THEN <<>>
    ELSE LET m == CHOOSE x \in Range(s) : \A y \in Range(s) : y = x \/ StrLess(x, y)
         IN  <<m>> \o Sorted(Remove(s, m))

\* Series.unique(): distinct values in order of first appearance
RECURSIVE Unique(_)
Unique(s) ==
    IF s = <<>> THEN <<>>
    ELSE LET u == Unique(SubSeq(s, 1, Len(s) - 1))
             x == s[Len(s)]
         IN  IF x \in Range(u) THEN u ELSE Append(u, x)

\* ------------------------------------------------------ pd.to_numeric
IsDigit(c) == c \in {"0", "1", "2", "3", "4", "5", "6", "7", "8", "9"}
DigitVal(c) == CHOOSE d \in 0..9 : Digit(d) = c

RECURSIVE DigitsVal(_)
DigitsVal(s) == IF s = <<>> THEN 0 ELSE 10 * DigitsVal(SubSeq(s, 1, Len(s) - 1)) + DigitVal(s[Len(s)])

NotANumber == [nan |-> TRUE, t |-> 0]
Number(t) == [nan |-> FALSE, t |-> t]

\* a decimal literal [+-]digits[.digits] as tenths; anything else is no number
ParseNumber(s) ==
    LET signed == s # <<>> /\ Head(s) \in {"-", "+"}
        body == IF signed THEN Tail(s) ELSE s
        dots == { i \in 1..Len(body) : body[i] = "." }
        dot == IF dots = {} THEN Len(body) + 1 ELSE CHOOSE i \in dots : \A j \in dots : i <= j
        ip == SubSeq(body, 1, dot - 1)
        fp == SubSeq(body, dot + 1, Len(body))
        ok == /\ Cardinality(dots) <= 1
              /\ \A i \in 1..Len(ip) : IsDigit(ip[i])
              /\ \A i \in 1..Len(fp) : IsDigit(fp[i])
              /\ Len(ip) + Len(fp) >= 1
        mag == 10 * DigitsVal(ip) + (IF fp = <<>> THEN 0 ELSE DigitVal(fp[1]))
    IN  IF ~ok THEN NotANumber
        ELSE Number(IF signed /\ Head(s) = "-" THEN -mag ELSE mag)

\* pd.to_numeric(x, errors="coerce") on one cell
ToNumeric(cell) ==
    CASE cell.k = "num" -> Number(cell.v)
      [] cell.k = "int" -> Number(10 * cell.v)
      [] cell.k = "str" -> ParseNumber(cell.s)
      [] OTHER -> NotANumber

\* .fillna(0) on the coerced value
FillNaZero(x) == IF x.nan THEN Number(0) ELSE x

\* a conversion that rounds down instead of dropping the fractional part
AsTypeIntFloor(x) == x.t \div 10

\* .astype(int): conversion of a float to int drops the fractional part
AsTypeInt(x) == IF x.t >= 0 THEN x.t \div 10 ELSE -((-x.t) \div 10)

\* one cell of the priority column to its __prio_num
PrioNum(cell) == AsTypeInt(FillNaZero(ToNumeric(cell)))

\* DataFrame.fillna("") on one cell
FillNaEmpty(cell) == IF cell.k = "nan" THEN Str(<<>>) ELSE cell

\* str(val) of a cell value
StrOf(cell) ==
    CASE cell.k = "str" -> cell.s
      [] cell.k = "int" -> IntToStr(cell.v)
      [] cell.k = "num" ->
            IF cell.v % 10 = 0 THEN IntToStr(AsTypeInt(Number(cell.v)))
            ELSE (IF cell.v < 0 THEN <<"-">> ELSE <<>>)
                 \o NatToStr((IF cell.v < 0 THEN -cell.v ELSE cell.v) \div 10)
                 \o <<".", Digit((IF cell.v < 0 THEN -cell.v ELSE cell.v) % 10)>>
      [] OTHER -> <<"nan">>

\* ICON.get(value, ''); a glyph is one token, written here by its name
Icon(cell) ==
    CASE cell = Str(<<"Machine">>) -> <<"(gear)">>
      [] cell = Str(<<"Humain">>) -> <<"(person)">>
      [] cell = Str(<<"Deux">>) -> <<"(handshake)">>
      [] OTHER -> <<>>

\* ------------------------------------------------------------- state
VARIABLES
    sheet,                  \* the table pd.read_excel returns: [columns, rows]
    ordre_voulu,            \* argument: preferred order of engineers
    ingenieurs_en_conge,    \* argument: engineers on leave
    colonnes,               \* argument: columns to display
    tri_priorite_ascendant, \* argument
    page_length,            \* argument
    trier_autres_alpha,     \* argument
    etats_conserves,        \* argument: states kept
    prior_file,             \* what sortie_html held before the call: <<>> or <<content>>
    pc,                     \* position in generate_suivi_html
    df,                     \* the data frame: rows [idx, cells]
    ingenieurs,             \* the list of sections to render
    html_output,            \* the document built so far
    k,                      \* index of the running for loop
    file,                   \* what sortie_html holds: <<>> or <<content>>
    dir_exists,             \* the directory of sortie_html exists
    error                   \* the exception that ended the run, if any

args == << sheet, ordre_voulu, ingenieurs_en_conge, colonnes, tri_priorite_ascendant,
           page_length, trier_autres_alpha, etats_conserves, prior_file >>
vars == << sheet, ordre_voulu, ingenieurs_en_conge, colonnes, tri_priorite_ascendant,
           page_length, trier_autres_alpha, etats_conserves, prior_file,
           pc, df, ingenieurs, html_output, k, file, dir_exists, error >>

NoError == [type |-> "none", what |-> <<>>, sheet |-> <<>>]
KeyError(col) == [type |-> "KeyError", what |-> col, sheet |-> <<>>]
\* an error message that leaves the sheet out
ColonneIntrouvableSansFeuille(col, feuille) == [type |-> "ValueError", what |-> col, sheet |-> <<>>]

\* ValueError(f"La colonne '{nom_col_priorite_affiche}' est introuvable dans la feuille '{nom_feuille}'.")
ColonneIntrouvable(col, feuille) == [type |-> "ValueError", what |-> col, sheet |-> feuille]

EmptyDocument == [head |-> <<>>, nav |-> <<>>, body |-> <<>>]
OldDocument == [head |-> <<>>, nav |-> <<>>, body |-> <<>>, old |-> TRUE]

\* ------------------------------------------------------ input samples
AllColumns == Range(DefaultColonnes) \cup {ColResp}

EnCours == Str(<<"En", " ", "cours">>)
Terminee == Str(<<"Terminée">>)
\* engineers, each name written by its initial
Viet == <<"V">>
Maxime == <<"M">>
Benjamin == <<"B">>
Ibrahim == <<"I">>

Row(etat, resp, prio, intitule, type) ==
    [c \in AllColumns |->
        CASE c = ColEtat -> etat
          [] c = ColResp -> resp
          [] c = nom_col_priorite_affiche -> prio
          [] c = ColIntitule -> intitule
          [] c = ColType -> type
          [] c = ColDate -> NaN
          [] OTHER -> Str(<<"x">>)]

Project(row, cols) == [c \in cols |-> row[c]]

SeqsUpTo(S, n) == UNION { [1..m -> S] : m \in 0..n }

Sheet(cols, rows) == [columns |-> cols, rows |-> [j \in 1..Len(rows) |-> Project(rows[j], cols)]]

PlainRow(etat, resp) == Row(etat, resp, Num(10), Str(<<"t">>), Str(<<"Machine">>))

\* raw contents of a priority cell: numbers of both signs, fractions, text, empty
PrioSamples ==
    { Num(0), Num(10), Num(20), Num(27), Num(-27), Num(-30),
      Str(<<"T", "B", "D">>), Str(<<"3">>), Str(<<"-", "2">>), Str(<<"2", ".", "7">>), NaN }

MarkupText == <<"<", "i", ">", "&", "\"">>

InitRun ==
    /\ pc = "makedirs"
    /\ df = <<>>
    /\ ingenieurs = <<>>
    /\ html_output = EmptyDocument
    /\ k = 1
    /\ file = prior_file
    /\ error = NoError

\* grouping: who is assigned, who is kept, the preferred order, who is on leave
InitGroup ==
    /\ \E rows \in SeqsUpTo({ PlainRow(e, r) : e \in {EnCours, Terminee},
                                              r \in {NaN, Str(Viet), Str(Maxime), Str(Benjamin)} }, MaxRows) :
          sheet = Sheet(AllColumns, rows)
    /\ ordre_voulu \in SeqsUpTo({Viet, Maxime, Ibrahim}, MaxOrdre)
    /\ ingenieurs_en_conge \in {{}, {Viet}}
    /\ trier_autres_alpha \in BOOLEAN
    /\ etats_conserves = DefaultEtats
    /\ colonnes = DefaultColonnes
    /\ tri_priorite_ascendant = TRUE
    /\ page_length = 25
    /\ prior_file = <<>>
    /\ dir_exists = TRUE

\* names that differ only by space / underscore, names and cells holding markup
InitNames ==
    /\ \E rows \in SeqsUpTo({ Row(EnCours, Str(r), Num(10), Str(MarkupText), Str(t)) :
                                 r \in {<<"a", " ", "b">>, <<"a", "_", "b">>, <<"<", "b", ">">>},
                                 t \in {<<"Humain">>, <<"<", "b", ">">>} }, MaxRows) :
          sheet = Sheet(AllColumns, rows)
    /\ ordre_voulu = <<>>
    /\ ingenieurs_en_conge = {}
    /\ trier_autres_alpha \in BOOLEAN
    /\ etats_conserves \in {DefaultEtats, {Terminee}}
    /\ colonnes = DefaultColonnes
    /\ tri_priorite_ascendant = TRUE
    /\ page_length = 25
    /\ prior_file = <<>>
    /\ dir_exists = TRUE

\* priorities: every kind of raw value, both sort directions
InitPrio ==
    /\ \E rows \in SeqsUpTo({ Row(EnCours, Str(Viet), p, Str(<<"t">>), Str(<<"Deux">>)) :
                                 p \in PrioSamples }, MaxRows) :
          sheet = Sheet(AllColumns, rows)
    /\ ordre_voulu = <<>>
    /\ ingenieurs_en_conge = {}
    /\ trier_autres_alpha = FALSE
    /\ etats_conserves = DefaultEtats
    /\ colonnes = DefaultColonnes
    /\ tri_priorite_ascendant \in BOOLEAN
    /\ page_length = 25
    /\ prior_file = <<>>
    /\ dir_exists = TRUE

\* rendering options: the displayed columns, the page length, the direction
InitRender ==
    /\ sheet = Sheet(AllColumns, << PlainRow(EnCours, Str(Viet)), PlainRow(EnCours, Str(Maxime)) >>)
    /\ ordre_voulu = <<>>
    /\ ingenieurs_en_conge = {}
    /\ trier_autres_alpha = FALSE
    /\ etats_conserves = DefaultEtats
    /\ colonnes \in { DefaultColonnes,
                      << nom_col_priorite_affiche, ColEtat >>,
                      << ColEtat, ColIntitule >>,
                      << ColEtat, nom_col_priorite_affiche, ColType >>,
                      << ColIntitule, <<"Charge">> >> }
    /\ tri_priorite_ascendant \in BOOLEAN
    /\ page_length \in {10, 25}
    /\ prior_file = <<>>
    /\ dir_exists = TRUE

\* the environment: which columns the worksheet has, what the output path holds
InitEnv ==
    /\ \E missing \in SUBSET {ColEtat, nom_col_priorite_affiche, ColResp, ColType} :
          sheet = Sheet(AllColumns \ missing, << PlainRow(EnCours, Str(Viet)) >>)
    /\ ordre_voulu = <<>>
    /\ ingenieurs_en_conge = {}
    /\ trier_autres_alpha = FALSE
    /\ etats_conserves = DefaultEtats
    /\ colonnes = DefaultColonnes
    /\ tri_priorite_ascendant = TRUE
    /\ page_length = 25
    /\ prior_file \in { <<>>, <<OldDocument>> }
    /\ dir_exists \in BOOLEAN

Init == (InitGroup \/ InitNames \/ InitPrio \/ InitRender \/ InitEnv) /\ InitRun

\* ----------------------------------------------------- the data frame
\* df = df[df["Etat"].isin(etats_conserves)].copy(); df = df.fillna("")
Prepare(table, etats) ==
    LET all == [j \in 1..Len(table.rows) |-> [idx |-> j, cells |-> table.rows[j]]]
        kept == SelectSeq(all, LAMBDA r : r.cells[ColEtat] \in etats)
    IN  [j \in 1..Len(kept) |->
            [idx |-> kept[j].idx,
             cells |-> [c \in table.columns |-> FillNaEmpty(kept[j].cells[c])]]]

\* df["__prio_num"] = pd.to_numeric(df[col], errors="coerce").fillna(0).astype(int)
WithPrioNum(d, col) ==
    [j \in 1..Len(d) |->
        [idx |-> d[j].idx,
         cells |-> [c \in (DOMAIN d[j].cells) \cup {ColPrioNum} |->
                       IF c = ColPrioNum THEN IntCell(PrioNum(d[j].cells[col]))
                       ELSE d[j].cells[c]]]]

\* list(df["Prise en charge par"].dropna().unique())
Present(d) ==
    LET col == [j \in 1..Len(d) |-> d[j].cells[ColResp]]
        notna == SelectSeq(col, LAMBDA c : c.k # "nan")
    IN  Unique([j \in 1..Len(notna) |-> StrOf(notna[j])])

\* autres = [n for n in present if n not in ordre_voulu], sorted on request
Autres(present, ordre, alpha) ==
    LET rest == SelectSeq(present, LAMBDA n : n \notin Range(ordre))
    IN  IF alpha THEN Sorted(rest) ELSE rest

\* ingenieurs = [n for n in ordre_voulu if n in present] + autres
Ingenieurs(present, ordre, alpha) ==
    SelectSeq(ordre, LAMBDA n : n \in Range(present)) \o Autres(present, ordre, alpha)

\* a renderer that never looks at the on-leave list
EnCongeIgnore(resp, conge) == FALSE

\* resp in ingenieurs_en_conge
EnConge(resp, conge) == resp \in conge

\* df[df["Prise en charge par"] == resp]
Group(d, resp) == SelectSeq(d, LAMBDA r : r.cells[ColResp] = Str(resp))

PrioOf(r) == r.cells[ColPrioNum].v

Orderings(n) == { p \in [1..n -> 1..n] : \A a, b \in 1..n : a # b => p[a] # p[b] }

\* grp.sort_values("__prio_num", ascending=asc): the default kind is quicksort,
\* which orders the keys and promises nothing about rows with equal keys
SortValues(grp, asc) ==
    { s \in { [j \in 1..Len(grp) |-> grp[p[j]]] : p \in Orderings(Len(grp)) } :
        \A j \in 1..(Len(s) - 1) :
            IF asc THEN PrioOf(s[j]) <= PrioOf(s[j + 1]) ELSE PrioOf(s[j]) >= PrioOf(s[j + 1]) }

\* the text of one <td>
Td(r, col) ==
    IF col = nom_col_priorite_affiche THEN Escape(IntToStr(PrioOf(r)))
    ELSE IF col = ColType THEN Escape(Icon(r.cells[col]) \o <<" ">> \o StrOf(r.cells[col]))
    ELSE Escape(StrOf(r.cells[col]))

\* columns whose lookup row[col] fails
BadColumns(d, cols) ==
    { j \in 1..Len(cols) : cols[j] # nom_col_priorite_affiche /\ cols[j] \notin DOMAIN d[1].cells }

SectionHeader(resp) == [id |-> Anchor(resp), title |-> resp, kind |-> "", th |-> <<>>, tr |-> <<>>]

\* ------------------------------------------------------------ actions
\* os.makedirs(os.path.dirname(sortie_html) or ".", exist_ok=True)
MakeDirs ==
    /\ pc = "makedirs"
    /\ dir_exists' = TRUE
    /\ pc' = "read"
    /\ UNCHANGED << args, df, ingenieurs, html_output, k, file, error >>

\* df["Etat"] on a table without that column
EtatIntrouvable ==
    /\ pc = "read"
    /\ ColEtat \notin sheet.columns
    /\ error' = KeyError(ColEtat)
    /\ pc' = "error"
    /\ UNCHANGED << args, df, ingenieurs, html_output, k, file, dir_exists >>

LecturePreparation ==
    /\ pc = "read"
    /\ ColEtat \in sheet.columns
    /\ df' = Prepare(sheet, etats_conserves)
    /\ pc' = "check"
    /\ UNCHANGED << args, ingenieurs, html_output, k, file, dir_exists, error >>

PrioriteIntrouvable ==
    /\ pc = "check"
    /\ nom_col_priorite_affiche \notin sheet.columns
    /\ error' = ColonneIntrouvable(nom_col_priorite_affiche, nom_feuille)
    /\ pc' = "error"
    /\ UNCHANGED << args, df, ingenieurs, html_output, k, file, dir_exists >>

CalculPrioNum ==
    /\ pc = "check"
    /\ nom_col_priorite_affiche \in sheet.columns
    /\ df' = WithPrioNum(df, nom_col_priorite_affiche)
    /\ pc' = "ingenieurs"
    /\ UNCHANGED << args, ingenieurs, html_output, k, file, dir_exists, error >>

\* df["Prise en charge par"] on a table without that column
RespIntrouvable ==
    /\ pc = "ingenieurs"
    /\ ColResp \notin sheet.columns
    /\ error' = KeyError(ColResp)
    /\ pc' = "error"
    /\ UNCHANGED << args, df, ingenieurs, html_output, k, file, dir_exists >>

ListeIngenieurs ==
    /\ pc = "ingenieurs"
    /\ ColResp \in sheet.columns
    /\ ingenieurs' = Ingenieurs(Present(df), ordre_voulu, trier_autres_alpha)
    /\ pc' = "head"
    /\ UNCHANGED << args, df, html_output, k, file, dir_exists, error >>

\* the <head>: the DataTables configuration
RenderHead ==
    /\ pc = "head"
    /\ LET order_dir == IF tri_priorite_ascendant THEN "asc" ELSE "desc"
       IN  html_output' = [html_output EXCEPT !.head =
               << [pageLength |-> page_length,
                   order |-> <<OrderColumn, order_dir>>,
                   targets |-> OrderColumn] >>]
    /\ pc' = "sommaire"
    /\ k' = 1
    /\ UNCHANGED << args, df, ingenieurs, file, dir_exists, error >>

\* one <li><a href='#{anchor}'>{nom}</a></li>
SommaireLien ==
    /\ pc = "sommaire"
    /\ k <= Len(ingenieurs)
    /\ LET nom == ingenieurs[k]
       IN  html_output' = [html_output EXCEPT !.nav =
               Append(@, [href |-> Anchor(nom), label |-> nom])]
    /\ k' = k + 1
    /\ UNCHANGED << args, pc, df, ingenieurs, file, dir_exists, error >>

SommaireFin ==
    /\ pc = "sommaire"
    /\ k > Len(ingenieurs)
    /\ pc' = "sections"
    /\ k' = 1
    /\ UNCHANGED << args, df, ingenieurs, html_output, file, dir_exists, error >>

\* one pass of "for resp in ingenieurs": header, then placeholder or table
RenderSection ==
    /\ pc = "sections"
    /\ k <= Len(ingenieurs)
    /\ LET resp == ingenieurs[k]
           grp == Group(df, resp)
           header == SectionHeader(resp)
       IN  IF EnConge(resp, ingenieurs_en_conge)
           THEN html_output' = [html_output EXCEPT !.body =
                    Append(@, [header EXCEPT !.kind = "conge"])]
           ELSE IF grp = <<>>
           THEN html_output' = [html_output EXCEPT !.body =
                    Append(@, [header EXCEPT !.kind = "vide"])]
           ELSE /\ BadColumns(grp, colonnes) = {}
                /\ \E sorted \in SortValues(grp, tri_priorite_ascendant) :
                       html_output' = [html_output EXCEPT !.body =
                           Append(@, [header EXCEPT
                               !.kind = "table",
                               !.th = colonnes,
                               !.tr = [j \in 1..Len(sorted) |->
                                         [idx |-> sorted[j].idx,
                                          td |-> [c \in 1..Len(colonnes) |-> Td(sorted[j], colonnes[c])]]]])]
    /\ k' = k + 1
    /\ UNCHANGED << args, pc, df, ingenieurs, file, dir_exists, error >>

\* row[col] on a column the table does not have
SectionKeyError ==
    /\ pc = "sections"
    /\ k <= Len(ingenieurs)
    /\ LET resp == ingenieurs[k]
           grp == Group(df, resp)
           bad == BadColumns(grp, colonnes)
       IN  /\ ~EnConge(resp, ingenieurs_en_conge)
           /\ grp # <<>>
           /\ bad # {}
           /\ error' = KeyError(colonnes[CHOOSE j \in bad : \A h \in bad : j <= h])
    /\ pc' = "error"
    /\ UNCHANGED << args, df, ingenieurs, html_output, k, file, dir_exists >>

SectionsFin ==
    /\ pc = "sections"
    /\ k > Len(ingenieurs)
    /\ pc' = "write"
    /\ UNCHANGED << args, df, ingenieurs, html_output, k, file, dir_exists, error >>

\* with open(sortie_html, "w", encoding="utf-8") as f: f.write(html_output)
EcritureFichier ==
    /\ pc = "write"
    /\ file' = <<html_output>>
    /\ pc' = "done"
    /\ UNCHANGED << args, df, ingenieurs, html_output, k, dir_exists, error >>

Next ==
    \/ MakeDirs
    \/ EtatIntrouvable
    \/ LecturePreparation
    \/ PrioriteIntrouvable
    \/ CalculPrioNum
    \/ RespIntrouvable
    \/ ListeIngenieurs
    \/ RenderHead
    \/ SommaireLien
    \/ SommaireFin
    \/ RenderSection
    \/ SectionKeyError
    \/ SectionsFin
    \/ EcritureFichier

Spec == Init /\ [][Next]_vars

\* the same runs, with nobody on leave
InitNobodyOnLeave == Init /\ ingenieurs_en_conge = {}
SpecNobodyOnLeave == InitNobodyOnLeave /\ [][Next]_vars

\* ------------------------------------------------------------- claims
\* What the claims speak of, read off the worksheet and the arguments.
Rows == 1..Len(sheet.rows)
Kept(j) == ColEtat \in sheet.columns /\ sheet.rows[j][ColEtat] \in etats_conserves
HasAssignee(j) ==
    /\ ColResp \in sheet.columns
    /\ sheet.rows[j][ColResp].k = "str"
    /\ sheet.rows[j][ColResp].s # <<>>
Assignee(j) == sheet.rows[j][ColResp].s
Report == file[1]
Sections == 1..Len(Report.body)
ListedIn(j, s) == \E r \in 1..Len(Report.body[s].tr) : Report.body[s].tr[r].idx = j
Appears(j) == \E s \in Sections : ListedIn(j, s)
Titles == [s \in Sections |-> Report.body[s].title]
Labels == [n \in 1..Len(Report.nav) |-> Report.nav[n].label]
Normalized == pc \notin {"makedirs", "read", "check"} /\ (\A j \in 1..Len(df) : ColPrioNum \in DOMAIN df[j].cells)
DerivedPrio(j) == PrioOf(CHOOSE r \in Range(df) : r.idx = j)

\* C1: a row of the input appears as a table row of the report if and only if
\* its state is in the allow-list and its assignee cell is non-empty.
RowAppearsIffKeptAndAssigned ==
    pc = "done" => \A j \in Rows : Appears(j) <=> (Kept(j) /\ HasAssignee(j))

AssignedKept == SelectSeq([j \in Rows |-> j], LAMBDA j : Kept(j) /\ HasAssignee(j))
KeptNames == Unique([n \in 1..Len(AssignedKept) |-> Assignee(AssignedKept[n])])
Preferred == SelectSeq(ordre_voulu, LAMBDA n : n \in Range(KeptNames))
Others == SelectSeq(KeptNames, LAMBDA n : n \notin Range(ordre_voulu))
IsOrderOf(t, names) ==
    /\ Len(t) = Len(names)
    /\ Range(t) = Range(names)
    /\ IF trier_autres_alpha
       THEN \A a, b \in 1..Len(t) : a < b => StrLess(t[a], t[b])
       ELSE t = names

\* C2: the sections (and the navigation links) are the names of the preferred
\* order that are assignee of a kept row, in that order, then the other assignee
\* names of kept rows, first-seen or alphabetical per the flag.
SectionOrderAsConfigured ==
    pc = "done" =>
        /\ Labels = Titles
        /\ Len(Titles) = Len(Preferred) + Len(Others)
        /\ SubSeq(Titles, 1, Len(Preferred)) = Preferred
        /\ IsOrderOf(SubSeq(Titles, Len(Preferred) + 1, Len(Titles)), Others)

RawPrio(j) == sheet.rows[j][nom_col_priorite_affiche]
Unparseable(cell) == cell.k = "nan" \/ cell = Str(<<"T", "B", "D">>)

\* C4, as claimed: the derived priority of every kept row is a non-negative
\* integer whatever the raw value; a missing or unparseable value gives 0.
PriorityNonNegative ==
    Normalized =>
        \A j \in 1..Len(df) :
            /\ PrioOf(df[j]) >= 0
            /\ Unparseable(RawPrio(df[j].idx)) => PrioOf(df[j]) = 0

TextValue(cell) ==
    CASE cell = Str(<<"3">>) -> 30
      [] cell = Str(<<"-", "2">>) -> -20
      [] cell = Str(<<"2", ".", "7">>) -> 27
IsTruncationOf(p, t) ==
    /\ t >= 0 => (p >= 0 /\ 10 * p <= t /\ t < 10 * p + 10)
    /\ t <= 0 => (p <= 0 /\ 10 * p >= t /\ t > 10 * p - 10)
AllColumnsPresent ==
    (Range(colonnes) \cup {ColEtat, ColResp, nom_col_priorite_affiche}) \subseteq sheet.columns

\* C4, amended: the derived priority is the raw number with its fractional part
\* dropped (so it is negative for raw values of -1 and below); a missing or
\* unparseable value gives 0; no raw value ends the run in an error.
PriorityTruncatedTowardZero ==
    /\ AllColumnsPresent => pc # "error"
    /\ Normalized =>
          \A j \in 1..Len(df) :
              LET raw == RawPrio(df[j].idx)
                  p == PrioOf(df[j])
              IN  /\ Unparseable(raw) => p = 0
                  /\ raw.k = "num" => IsTruncationOf(p, raw.v)
                  /\ (raw.k = "str" /\ ~Unparseable(raw)) => IsTruncationOf(p, TextValue(raw))

\* C4: a run that normalized a negative fraction and an unparseable text
PriorityWitness ==
    /\ pc = "done"
    /\ \E j \in 1..Len(df) : RawPrio(df[j].idx) = Num(-27) /\ PrioOf(df[j]) = -2
    /\ \E j \in 1..Len(df) : RawPrio(df[j].idx) = Str(<<"T", "B", "D">>) /\ PrioOf(df[j]) = 0

PrioMissing == nom_col_priorite_affiche \notin sheet.columns
NamesColumnAndSheet ==
    /\ error.type = "ValueError"
    /\ error.what = nom_col_priorite_affiche
    /\ error.sheet = nom_feuille

\* C5, as claimed: without the priority column the run ends in an error naming
\* the column and the sheet, and the output path holds what it held before.
MissingPriorityIsReported ==
    PrioMissing =>
        /\ file = prior_file
        /\ pc # "done"
        /\ pc = "error" => NamesColumnAndSheet

\* C5, amended: the error names the column and the sheet when the table has
\* its state column (without it the lookup of the state column fails first);
\* in both cases nothing is written to the output path.
MissingPriorityWritesNothing ==
    PrioMissing =>
        /\ file = prior_file
        /\ pc \in {"makedirs", "read", "check", "error"}
        /\ (pc = "error" /\ ColEtat \in sheet.columns) => NamesColumnAndSheet
        /\ (pc = "error" /\ ColEtat \notin sheet.columns) => error = KeyError(ColEtat)

\* C5: a run stopped by the missing priority column, an older report in place
MissingPriorityWitness ==
    /\ PrioMissing
    /\ ColEtat \in sheet.columns
    /\ pc = "error"
    /\ NamesColumnAndSheet
    /\ prior_file = <<OldDocument>>
    /\ file = <<OldDocument>>

\* C6: the section of an engineer on leave who has kept rows is the heading and
\* the leave placeholder: no table, and none of the engineer's rows anywhere.
OnLeaveSectionHasNoTable ==
    /\ \A s \in 1..Len(html_output.body) :
          html_output.body[s].title \in ingenieurs_en_conge =>
              /\ html_output.body[s].kind = "conge"
              /\ html_output.body[s].th = <<>>
              /\ html_output.body[s].tr = <<>>
    /\ pc = "done" =>
          \A j \in Rows : (Kept(j) /\ HasAssignee(j) /\ Assignee(j) \in ingenieurs_en_conge) =>
              /\ ~Appears(j)
              /\ \E s \in Sections : Titles[s] = Assignee(j)

\* C6: a written report with a section on leave beside a section with a table
OnLeaveWitness ==
    /\ pc = "done"
    /\ \E j \in Rows : Kept(j) /\ HasAssignee(j) /\ Assignee(j) \in ingenieurs_en_conge
    /\ \E s \in Sections : Report.body[s].kind = "conge"
    /\ \E s \in Sections : Report.body[s].kind = "table"

IndexOf(seq, x) == (CHOOSE n \in 1..Len(seq) : seq[n] = x) - 1

\* C7: the embedded configuration has the caller's page length and direction,
\* and sorts on the index of the priority column among the displayed columns.
ConfigMatchesCaller ==
    pc = "done" =>
        LET cfg == Report.head[1]
        IN  /\ cfg.pageLength = page_length
            /\ cfg.order[2] = (IF tri_priorite_ascendant THEN "asc" ELSE "desc")
            /\ nom_col_priorite_affiche \in Range(colonnes) =>
                  /\ cfg.order[1] = IndexOf(colonnes, nom_col_priorite_affiche)
                  /\ cfg.targets = IndexOf(colonnes, nom_col_priorite_affiche)

Entities == {"amp;", "lt;", "gt;", "quot;", "#x27;"}
IsEscaped(t) ==
    \A n \in 1..Len(t) :
        /\ t[n] \notin {"<", ">", "\"", "'"}
        /\ t[n] = "&" => (n < Len(t) /\ t[n + 1] \in Entities)

\* C8: every text of the worksheet that is written into the document (cells,
\* names and column names in links, headings, anchors and headers) is escaped.
EverythingEscaped ==
    pc = "done" =>
        /\ \A n \in 1..Len(Report.nav) :
              IsEscaped(Report.nav[n].label) /\ IsEscaped(Report.nav[n].href)
        /\ \A s \in Sections :
              /\ IsEscaped(Report.body[s].title)
              /\ IsEscaped(Report.body[s].id)
              /\ \A c \in 1..Len(Report.body[s].th) : IsEscaped(Report.body[s].th[c])
              /\ \A r \in 1..Len(Report.body[s].tr) :
                    \A c \in 1..Len(Report.body[s].tr[r].td) : IsEscaped(Report.body[s].tr[r].td[c])

\* C9: every kept row with an assignee belongs to exactly one section, the one
\* of its assignee; no row is listed twice and no section is emitted twice.
OneSectionPerRow ==
    pc = "done" =>
        /\ \A j \in Rows : (Kept(j) /\ HasAssignee(j)) =>
              Cardinality({ s \in Sections : Titles[s] = Assignee(j) }) = 1
        /\ \A j \in Rows : Cardinality({ s \in Sections : ListedIn(j, s) }) <= 1
        /\ \A s, t \in Sections : s # t => Titles[s] # Titles[t]

\* C10: two different assignee names never get the same anchor id.
DistinctNamesDistinctAnchors ==
    pc = "done" =>
        \A s, t \in Sections :
            Titles[s] # Titles[t] => Report.body[s].id # Report.body[t].id

====
